---------------------------- MODULE Spec2Model ----------------------------
(***************************************************************************)
(* imagetools-blurhash: the per-invocation transform factory `blurhash`,   *)
(* its components parser `parseBlurhashComponents`, and the asynchronous   *)
(* `blurhashTransform` closure it returns.                                 *)
(*                                                                         *)
(* JavaScript values are records [kind, val].  A number is held as twice   *)
(* its value (val = 2n), so that the half-integers the tests use (0.5,     *)
(* 2.5) are representable with integer arithmetic.  A string is the        *)
(* sequence of its characters.                                             *)
(***************************************************************************)
EXTENDS Integers, Sequences, FiniteSets, TLC

VARIABLES
    defaultConfig,    \* the configuration closed over by blurhash(defaultConfig)
    options,          \* options.blurhash of the last factory invocation
    finalComponents,  \* the last argument handed to parseBlurhashComponents
    parsed,           \* what that call returned or threw
    result,           \* what the last factory invocation returned or threw
    invocations,      \* the blurhashTransform calls, in the order they were started
    store             \* vite-imagetools' metadata store: the setMetadata writes made

vars == <<defaultConfig, options, finalComponents, parsed, result,
          invocations, store>>

---------------------------------------------------------------------------
(* Bounds of the model *)

\* largest component count (and digit-group value) that is enumerated
MaxN == 12

\* longest string of the free-form alphabet that is enumerated
MaxLen == 3

\* largest width and height of the full range of image sizes
MaxDim == 40

\* most blurhashTransform calls started in one behaviour
MaxCalls == 2

---------------------------------------------------------------------------
(* JavaScript values *)

Undefined == [kind |-> "undefined", val |-> 0]

Bool(b) == [kind |-> "boolean", val |-> b]

\* a number, given as twice its value
Num(twice) == [kind |-> "number", val |-> twice]

\* an integer number
Whole(n) == Num(2 * n)

Str(chars) == [kind |-> "string", val |-> chars]

Arr(elems) == [kind |-> "array", val |-> elems]

\* a closure returned by the factory, bound to [xComponents, yComponents]
Transform(pair) == [kind |-> "function", val |-> pair]

\* a thrown Error with the given message (a sequence of text pieces)
Throw(message) == [kind |-> "throw", val |-> message]

\* no call has been made yet
None == [kind |-> "none", val |-> 0]

TypeOf(v) == IF v.kind = "array" THEN "object" ELSE v.kind

\* ToBoolean, for the kinds a configuration can hold
Truthy(v) ==
    CASE v.kind = "undefined" -> FALSE
      [] v.kind = "boolean" -> v.val
      [] v.kind = "number" -> v.val # 0
      [] v.kind = "string" -> v.val # <<>>
      [] OTHER -> TRUE

TRUE_ == <<"t", "r", "u", "e">>

FALSE_ == <<"f", "a", "l", "s", "e">>

---------------------------------------------------------------------------
(* Characters, Number-to-string and parseInt *)

Digits == <<"0", "1", "2", "3", "4", "5", "6", "7", "8", "9">>

\* \d
IsDigit(c) == \E i \in 1..10 : Digits[i] = c

\* \s (the white space characters that are enumerated)
IsSpace(c) == c \in {" ", "\t", "\n"}

DigitVal(c) == (CHOOSE i \in 1..10 : Digits[i] = c) - 1

RECURSIVE DigitsOf(_)
\* the decimal digits of a natural number
DigitsOf(n) ==
    IF n < 10 THEN <<Digits[n + 1]>>
    ELSE DigitsOf(n \div 10) \o <<Digits[(n % 10) + 1]>>

RECURSIVE NumberToString(_)
\* Number::toString of the number whose double is `twice`
NumberToString(twice) ==
    IF twice < 0 THEN <<"-">> \o NumberToString(-twice)
    ELSE IF twice % 2 = 0 THEN DigitsOf(twice \div 2)
    ELSE DigitsOf(twice \div 2) \o <<".", "5">>

RECURSIVE ParseInt10(_)
\* parseInt(s, 10) of a non-empty string of digits
ParseInt10(s) ==
    IF Len(s) = 1 THEN DigitVal(s[1])
    ELSE 10 * ParseInt10(SubSeq(s, 1, Len(s) - 1)) + DigitVal(s[Len(s)])

---------------------------------------------------------------------------
(* parseBlurhashComponents *)

RECURSIVE SkipSpaces(_, _)
\* \s* from position i: the first position that holds no white space
SkipSpaces(s, i) ==
    IF i <= Len(s) /\ IsSpace(s[i]) THEN SkipSpaces(s, i + 1) ELSE i

RECURSIVE SkipDigits(_, _)
\* \d* from position i: the first position that holds no digit
SkipDigits(s, i) ==
    IF i <= Len(s) /\ IsDigit(s[i]) THEN SkipDigits(s, i + 1) ELSE i

\* past the single separator [,-\s] of a run \s*[,-\s]\s* that starts at
\* `from` and whose white space ends at `at`; 0 when there is no separator
AfterSeparator(s, from, at) ==
    IF at <= Len(s) /\ s[at] \in {",", "-"} THEN at + 1
    ELSE IF at > from THEN at
    ELSE 0
\* mutant: /^\s*(\d+)[,-\s](\d+)\s*$/, no white space around the separator
RegexMatch_NoInnerSpaces(s) ==
    LET a1 == SkipSpaces(s, 1)
        a2 == SkipDigits(s, a1)
        b1 == IF a2 <= Len(s) /\ (s[a2] \in {",", "-"} \/ IsSpace(s[a2]))
              THEN a2 + 1 ELSE 0
        b2 == SkipDigits(s, b1)
        b3 == SkipSpaces(s, b2)
    IN  IF a2 > a1 /\ b1 > 0 /\ b2 > b1 /\ b3 = Len(s) + 1
        THEN <<SubSeq(s, a1, a2 - 1), SubSeq(s, b1, b2 - 1)>>
        ELSE <<>>

\* components.match(/^\s*(\d+)\s*[,-\s]\s*(\d+)\s*$/): the two captured
\* groups, or <<>> for null
RegexMatch(s) ==
    LET a1 == SkipSpaces(s, 1)
        a2 == SkipDigits(s, a1)
        a3 == SkipSpaces(s, a2)
        b0 == AfterSeparator(s, a2, a3)
        b1 == SkipSpaces(s, b0)
        b2 == SkipDigits(s, b1)
        b3 == SkipSpaces(s, b2)
    IN  IF a2 > a1 /\ b0 > 0 /\ b2 > b1 /\ b3 = Len(s) + 1
        THEN <<SubSeq(s, a1, a2 - 1), SubSeq(s, b1, b2 - 1)>>
        ELSE <<>>

ArrayLengthMessage == <<"blurhashComponents array must have exactly 2 elements">>

\* `Invalid blurhashComponents string format: "${components}". Expected
\* format: "x,y" or "x y" or "x-y"`
StringFormatMessage(s) ==
    <<"Invalid blurhashComponents string format: ", "\"">> \o s
    \o <<"\"", ". Expected format: ", "\"x,y\"", " or ", "\"x y\"", " or ", "\"x-y\"">>

\* `Invalid blurhashComponents type: ${typeof components}`
TypeMessage(v) == <<"Invalid blurhashComponents type: ", TypeOf(v)>>
\* mutant: a string that does not match falls back to the default pair
ParseComponentsString_Lenient(s) ==
    LET match == RegexMatch(s)
    IN  IF match = <<>> THEN Arr(<<Whole(4), Whole(4)>>)
        ELSE Arr(<<Whole(ParseInt10(match[1])), Whole(ParseInt10(match[2]))>>)

\* the string branch of parseBlurhashComponents
ParseComponentsString(s) ==
    LET match == RegexMatch(s)
    IN  IF match = <<>> THEN Throw(StringFormatMessage(s))
        ELSE Arr(<<Whole(ParseInt10(match[1])), Whole(ParseInt10(match[2]))>>)

\* mutant: a one-element array is taken for both axes
parseBlurhashComponents_Padded(components) ==
    CASE components.kind = "number" -> Arr(<<components, components>>)
      [] components.kind = "array" ->
            IF Len(components.val) = 1
            THEN Arr(<<components.val[1], components.val[1]>>)
            ELSE IF Len(components.val) # 2 THEN Throw(ArrayLengthMessage)
            ELSE Arr(<<components.val[1], components.val[2]>>)
      [] components.kind = "string" -> ParseComponentsString(components.val)
      [] OTHER -> Throw(TypeMessage(components))

\* parseBlurhashComponents(components): the pair as an array, or the throw
parseBlurhashComponents(components) ==
    CASE components.kind = "number" -> Arr(<<components, components>>)
      [] components.kind = "array" ->
            IF Len(components.val) # 2 THEN Throw(ArrayLengthMessage)
            ELSE Arr(<<components.val[1], components.val[2]>>)
      [] components.kind = "string" -> ParseComponentsString(components.val)
      [] OTHER -> Throw(TypeMessage(components))

---------------------------------------------------------------------------
(* blurhash(defaultConfig)(options) *)

\* the numeric default of `defaultConfig.components ?? 4`
DefaultComponents == 4
\* mutant: a number is handed on as a number
CoerceOption_None(raw) == raw

\* mutant: the number is written once, `${n}`
CoerceOption_Single(raw) ==
    IF raw.kind = "number" THEN Str(NumberToString(raw.val)) ELSE raw

\* typeof options.blurhash === 'number' ? `${n},${n}` : options.blurhash
CoerceOption(raw) ==
    IF raw.kind = "number"
    THEN Str(NumberToString(raw.val) \o <<",">> \o NumberToString(raw.val))
    ELSE raw
\* mutant: `||` in place of `??`
MergeWithDefaults_Or(blurhash, config) ==
    IF Truthy(blurhash) THEN blurhash
    ELSE IF Truthy(config.always) THEN Str(TRUE_)
    ELSE Undefined

\* blurhash ?? (defaultConfig.always ? 'true' : undefined)
MergeWithDefaults(blurhash, config) ==
    IF blurhash # Undefined THEN blurhash
    ELSE IF Truthy(config.always) THEN Str(TRUE_)
    ELSE Undefined
\* mutant: the 'false' literal is not recognised
IsDisabled_OnlyUndefined(finalBlurhash) == finalBlurhash = Undefined

\* finalBlurhash === undefined || finalBlurhash === 'false'
IsDisabled(finalBlurhash) ==
    finalBlurhash = Undefined \/ finalBlurhash = Str(FALSE_)
\* mutant: the configured default components are not consulted
SelectComponents_NoDefault(finalBlurhash, config) ==
    IF finalBlurhash = Str(TRUE_) \/ finalBlurhash = Str(<<>>)
    THEN Whole(DefaultComponents)
    ELSE finalBlurhash

\* mutant: configured default components win over the option's own
SelectComponents_DefaultWins(finalBlurhash, config) ==
    IF config.components # Undefined THEN config.components
    ELSE IF finalBlurhash = Str(TRUE_) \/ finalBlurhash = Str(<<>>)
    THEN Whole(DefaultComponents)
    ELSE finalBlurhash

\* the components handed to the parser
SelectComponents(finalBlurhash, config) ==
    IF finalBlurhash = Str(TRUE_) \/ finalBlurhash = Str(<<>>)
    THEN IF config.components # Undefined THEN config.components
         ELSE Whole(DefaultComponents)
    ELSE finalBlurhash

\* the value of finalBlurhash for an invocation
FinalBlurhash(raw, config) == MergeWithDefaults(CoerceOption(raw), config)

\* mutant: the configured components are resolved on every invocation
FactoryResult_EagerDefault(raw, config) ==
    LET default == parseBlurhashComponents(
                       IF config.components # Undefined THEN config.components
                       ELSE Whole(DefaultComponents))
        pair == parseBlurhashComponents(
                    SelectComponents(FinalBlurhash(raw, config), config))
    IN  IF default.kind = "throw" THEN default
        ELSE IF IsDisabled(FinalBlurhash(raw, config)) THEN Undefined
        ELSE IF pair.kind = "throw" THEN pair ELSE Transform(pair.val)

\* what the factory invocation returns or throws
FactoryResult(raw, config) ==
    IF IsDisabled(FinalBlurhash(raw, config)) THEN Undefined
    ELSE LET pair == parseBlurhashComponents(
                         SelectComponents(FinalBlurhash(raw, config), config))
         IN  IF pair.kind = "throw" THEN pair ELSE Transform(pair.val)

\* one invocation of the function blurhash(defaultConfig) returned
InvokeFactory(raw) ==
    /\ options' = raw
    /\ result' = FactoryResult(raw, defaultConfig)
    /\ IF IsDisabled(FinalBlurhash(raw, defaultConfig))
       THEN UNCHANGED <<finalComponents, parsed>>
       ELSE /\ finalComponents' =
                   SelectComponents(FinalBlurhash(raw, defaultConfig), defaultConfig)
            /\ parsed' = parseBlurhashComponents(finalComponents')
    /\ UNCHANGED <<defaultConfig, invocations, store>>

\* a direct call of the parser
ParseCall(components) ==
    /\ finalComponents' = components
    /\ parsed' = parseBlurhashComponents(components)
    /\ UNCHANGED <<defaultConfig, options, result, invocations, store>>

---------------------------------------------------------------------------
(* blurhashTransform(image) *)

\* const maxSize = 32
maxSize == 32

Min(a, b) == IF a <= b THEN a ELSE b

\* mutant: no lower clamp
Max_NoClamp(a, b) == b

Max(a, b) == IF a >= b THEN a ELSE b
\* mutant: Math.floor in place of Math.round
MathRound_Floor(num, den) == num \div den

\* Math.round of the rational num / den (den > 0): nearest integer, halves up
MathRound(num, den) == (2 * num + den) \div (2 * den)

\* metadata.width || 0
OrZero(v) == IF Truthy(v) THEN v ELSE Num(0)

\* mutant: each axis is capped on its own, the aspect ratio is not kept
ResizeDimensions_Independent(width, height) ==
    <<Max(2, 2 * MathRound(Min(2 * maxSize, width), 2)),
      Max(2, 2 * MathRound(Min(2 * maxSize, height), 2))>>

\* mutant: the longer axis is always scaled to maxSize, small images grow
ResizeDimensions_AlwaysMax(width, height) ==
    IF width > height
    THEN <<2 * maxSize, Max(2, 2 * MathRound(2 * maxSize * height, 2 * width))>>
    ELSE <<Max(2, 2 * MathRound(2 * maxSize * width, 2 * height)), 2 * maxSize>>

\* mutant: the wide branch truncates where the tall branch rounds
ResizeDimensions_Lopsided(width, height) ==
    IF width > height
    THEN LET resizeWidth == Min(2 * maxSize, width)
         IN  <<Max(2, resizeWidth),
               Max(2, 2 * ((resizeWidth * height) \div (2 * width)))>>
    ELSE LET resizeHeight == Min(2 * maxSize, height)
         IN  <<Max(2, 2 * MathRound(resizeHeight * width, 2 * height)),
               Max(2, resizeHeight)>>

\* [resizeWidth, resizeHeight] for a width and a height given doubled, both
\* results doubled:
\*   aspectRatio > 1:  resizeWidth = min(maxSize, width),
\*                     resizeHeight = round(resizeWidth / aspectRatio)
\*   else:             resizeHeight = min(maxSize, height),
\*                     resizeWidth = round(resizeHeight * aspectRatio)
\* and then max(1, .) of each
ResizeDimensions(width, height) ==
    IF width > height
    THEN LET resizeWidth == Min(2 * maxSize, width)
         IN  <<Max(2, resizeWidth),
               Max(2, 2 * MathRound(resizeWidth * height, 2 * width))>>
    ELSE LET resizeHeight == Min(2 * maxSize, height)
         IN  <<Max(2, 2 * MathRound(resizeHeight * width, 2 * height)),
               Max(2, resizeHeight)>>

\* a call made on a collaborator
Call(op, on, args) == [op |-> op, on |-> on, args |-> args]

\* mutant: raw() is called before ensureAlpha()
CloneChain_RawFirst(target) ==
    <<Call("clone", "image", <<>>),
      Call("resize", "clone", <<Num(target[1]), Num(target[2]), "nearest">>),
      Call("raw", "clone", <<>>),
      Call("ensureAlpha", "clone", <<>>),
      Call("toBuffer", "clone", <<"resolveWithObject">>)>>

\* mutant: the chain is applied to the image itself, the clone is unused
CloneChain_InPlace(target) ==
    <<Call("clone", "image", <<>>),
      Call("resize", "image", <<Num(target[1]), Num(target[2]), "nearest">>),
      Call("ensureAlpha", "image", <<>>),
      Call("raw", "image", <<>>),
      Call("toBuffer", "image", <<"resolveWithObject">>)>>

\* image.clone().resize(w, h, {kernel: 'nearest'}) ... .ensureAlpha().raw()
\* .toBuffer({resolveWithObject: true}), in the order the calls are made
CloneChain(target) ==
    <<Call("clone", "image", <<>>),
      Call("resize", "clone", <<Num(target[1]), Num(target[2]), "nearest">>),
      Call("ensureAlpha", "clone", <<>>),
      Call("raw", "clone", <<>>),
      Call("toBuffer", "clone", <<"resolveWithObject">>)>>

\* the position in CloneChain of the call that throws, 0 when none does
ThrowingCall(failAt) ==
    CASE failAt = "clone" -> 1
      [] failAt = "resize" -> 2
      [] failAt = "ensureAlpha" -> 3
      [] failAt = "raw" -> 4
      [] OTHER -> 0

\* mutant: the warning does not name the image
ZeroDimensionsWarning_NoPath(path) ==
    <<"Cannot generate blurhash for image ", " with zero dimensions">>

\* `Cannot generate blurhash for image ${getMetadata(image, 'path')} with
\* zero dimensions`
ZeroDimensionsWarning(path) ==
    <<"Cannot generate blurhash for image ", path, " with zero dimensions">>

\* the path the metadata store holds for an image
PathOf(image) == "/images/" \o ToString(image.id)

\* the raw pixels toBuffer yields for the resized clone of an image
PixelsOf(image, target) == <<"pixels", image.id, target[1], target[2]>>

\* blurhash's encode, an opaque function of its five arguments
encode(pixels, width, height, xComponents, yComponents) ==
    <<"hash", pixels, width, height, xComponents, yComponents>>

\* the error a failing collaborator raises
CollaboratorError(op) == Throw(<<"collaborator failure", op>>)

\* calling a method the handle does not have
TypeErrorOf(op) == Throw(<<"TypeError: not a function", op>>)

\* mutant: the failure is caught and rethrown under another message
Rejected_Wrapped(inv, calls, error) ==
    [inv EXCEPT !.pc = "rejected", !.calls = calls,
                !.returned = Throw(<<"blurhash generation failed">>)]

\* the invocation ends with the failure, no later statement runs
Rejected(inv, calls, error) ==
    [inv EXCEPT !.pc = "rejected", !.calls = calls, !.returned = error]

\* mutant: the zero-dimension branch returns nothing (`return;`)
Resolved_Nothing(inv, calls) ==
    [inv EXCEPT !.pc = "resolved", !.calls = calls,
                !.returned = IF Len(calls) = 3 THEN Undefined ELSE inv.image]

\* the invocation ends with `return image`
Resolved(inv, calls) ==
    [inv EXCEPT !.pc = "resolved", !.calls = calls, !.returned = inv.image]

\* mutant: the handle is checked for a clone method before anything is read
CallTransform_Validating(image, cap) ==
    /\ result.kind = "function"
    /\ Len(invocations) < cap
    /\ invocations' = Append(invocations,
            [image |-> image,
             xComponents |-> result.val[1],
             yComponents |-> result.val[2],
             pc |-> IF image.clone THEN "metadata" ELSE "rejected",
             target |-> <<>>,
             info |-> <<>>,
             calls |-> IF image.clone THEN <<Call("metadata", "image", <<>>)>> ELSE <<>>,
             returned |-> IF image.clone THEN None ELSE TypeErrorOf("clone")])
    /\ UNCHANGED <<defaultConfig, options, finalComponents, parsed, result, store>>

\* the transform is called: up to `await image.metadata()`
CallTransform(image, cap) ==
    /\ result.kind = "function"
    /\ Len(invocations) < cap
    /\ invocations' = Append(invocations,
            [image |-> image,
             xComponents |-> result.val[1],
             yComponents |-> result.val[2],
             pc |-> "metadata",
             target |-> <<>>,
             info |-> <<>>,
             calls |-> <<Call("metadata", "image", <<>>)>>,
             returned |-> None])
    /\ UNCHANGED <<defaultConfig, options, finalComponents, parsed, result, store>>

\* the state of an invocation after image.metadata() settles: up to
\* `await ... .toBuffer(...)`, or to the end
AfterMetadata(inv, failAt) ==
    LET width == OrZero(inv.image.width)
        height == OrZero(inv.image.height)
        target == ResizeDimensions(width.val, height.val)
        chain == CloneChain(target)
        getPath == Call("getMetadata", "store", <<inv.image.id, "path">>)
        warn == Call("warn", "console", ZeroDimensionsWarning(PathOf(inv.image)))
    IN  IF failAt = "metadata"
        THEN Rejected(inv, inv.calls, CollaboratorError("metadata"))
        ELSE IF width = Num(0) \/ height = Num(0)
        THEN IF failAt = "getMetadata"
             THEN Rejected(inv, Append(inv.calls, getPath),
                           CollaboratorError("getMetadata"))
             ELSE Resolved(inv, inv.calls \o <<getPath, warn>>)
        ELSE IF ~inv.image.clone
        THEN Rejected(inv, inv.calls, TypeErrorOf("clone"))
        ELSE IF ThrowingCall(failAt) > 0
        THEN Rejected([inv EXCEPT !.target = target],
                      inv.calls \o SubSeq(chain, 1, ThrowingCall(failAt)),
                      CollaboratorError(failAt))
        ELSE [inv EXCEPT !.pc = "toBuffer", !.target = target,
                         !.calls = inv.calls \o chain]

ResumeMetadata(i, failAt) ==
    /\ invocations[i].pc = "metadata"
    /\ invocations' = [invocations EXCEPT ![i] = AfterMetadata(invocations[i], failAt)]
    /\ UNCHANGED <<defaultConfig, options, finalComponents, parsed, result, store>>

\* mutant: encode is given the requested size, not the realized one
EncodeCall_Requested(inv, info) ==
    Call("encode", "blurhash",
         <<PixelsOf(inv.image, inv.target), Num(inv.target[1]), Num(inv.target[2]),
           inv.xComponents, inv.yComponents>>)

\* mutant: the pair is read from a variable shared by all closures, which
\* holds the pair parsed last
EncodeCall_SharedPair(inv, info) ==
    Call("encode", "blurhash",
         <<PixelsOf(inv.image, inv.target), Num(info[1]), Num(info[2]),
           IF parsed.kind = "array" THEN parsed.val[1] ELSE inv.xComponents,
           IF parsed.kind = "array" THEN parsed.val[2] ELSE inv.yComponents>>)

\* the encode call of an invocation whose buffer came with `info`
EncodeCall(inv, info) ==
    Call("encode", "blurhash",
         <<PixelsOf(inv.image, inv.target), Num(info[1]), Num(info[2]),
           inv.xComponents, inv.yComponents>>)

\* the string encode returns for that call
BlurhashString(inv, info) ==
    encode(PixelsOf(inv.image, inv.target), Num(info[1]), Num(info[2]),
           inv.xComponents, inv.yComponents)

\* mutant: the entry is keyed to the clone (handle 1000 + id)
SetMetadataCall_OnClone(inv, info) ==
    Call("setMetadata", "store",
         <<1000 + inv.image.id, "blurhash", BlurhashString(inv, info)>>)

\* mutant: the handle is kept in a variable shared by all calls, so the
\* entry is keyed to the image of the call started last
SetMetadataCall_LastStarted(inv, info) ==
    Call("setMetadata", "store",
         <<invocations[Len(invocations)].image.id, "blurhash",
           BlurhashString(inv, info)>>)

\* mutant: the value written depends on what the store already holds
SetMetadataCall_Appending(inv, info) ==
    Call("setMetadata", "store",
         <<inv.image.id, "blurhash",
           <<BlurhashString(inv, info),
             Cardinality({e \in store : e.image = inv.image.id})>>>>)

\* setMetadata(image, 'blurhash', blurhashString)
SetMetadataCall(inv, info) ==
    Call("setMetadata", "store", <<inv.image.id, "blurhash", BlurhashString(inv, info)>>)

\* the state of an invocation after toBuffer settles, to the end
AfterBuffer(inv, failAt, info) ==
    LET got == [inv EXCEPT !.info = info]
    IN  IF failAt = "toBuffer"
        THEN Rejected(inv, inv.calls, CollaboratorError("toBuffer"))
        ELSE IF failAt = "encode"
        THEN Rejected(got, Append(inv.calls, EncodeCall(inv, info)),
                      CollaboratorError("encode"))
        ELSE IF failAt = "setMetadata"
        THEN Rejected(got, inv.calls \o <<EncodeCall(inv, info), SetMetadataCall(inv, info)>>,
                      CollaboratorError("setMetadata"))
        ELSE Resolved(got, inv.calls \o <<EncodeCall(inv, info), SetMetadataCall(inv, info)>>)

\* vite-imagetools' setMetadata: the entry of (image, key) is replaced
setMetadata(entries, call) ==
    {e \in entries : ~(e.image = call.args[1] /\ e.key = call.args[2])}
    \cup {[image |-> call.args[1], key |-> call.args[2], value |-> call.args[3]]}

\* the realized width and height toBuffer may report: the requested ones, or
\* others
RealizedSizes(inv) == {inv.target, <<2, 2>>}

ResumeBuffer(i, failAt, info) ==
    /\ invocations[i].pc = "toBuffer"
    /\ invocations' = [invocations EXCEPT ![i] = AfterBuffer(invocations[i], failAt, info)]
    /\ store' = IF invocations'[i].pc = "resolved"
                THEN setMetadata(store, SetMetadataCall(invocations[i], info))
                ELSE store
    /\ UNCHANGED <<defaultConfig, options, finalComponents, parsed, result>>

MetadataFailures == {"none", "metadata", "getMetadata", "clone", "resize", "ensureAlpha", "raw"}

BufferFailures == {"none", "toBuffer", "encode", "setMetadata"}

---------------------------------------------------------------------------
(* Inputs *)

\* numbers: -1, -0.5, 0, 0.5, ..., MaxN
Numbers == {Num(t) : t \in -2..(2 * MaxN)}

Separators == {",", " ", "-"}

WhiteSpaceRuns == {<<>>, <<" ">>, <<"\t", " ">>}

\* "<ws>a<ws><sep><ws>b<ws>"
Delimited(w1, a, w2, sep, w3, b, w4) ==
    w1 \o DigitsOf(a) \o w2 \o <<sep>> \o w3 \o DigitsOf(b) \o w4

PlainDelimitedStrings ==
    {Delimited(<<>>, a, <<>>, sep, <<>>, b, <<>>) :
        a \in 0..MaxN, b \in 0..MaxN, sep \in Separators}

Alphabet == {"1", "0", ",", " ", "-", "x"}

RECURSIVE StringsUpTo(_)
StringsUpTo(n) ==
    IF n = 0 THEN {<<>>}
    ELSE LET shorter == StringsUpTo(n - 1)
         IN  shorter \cup {Append(s, c) : s \in shorter, c \in Alphabet}

NamedStrings ==
    {<<>>, TRUE_, FALSE_, <<"i", "n", "v", "a", "l", "i", "d">>,
     <<"4">>, <<"4", "4">>, <<" ", "3", " ", ",", " ", "2", " ">>,
     <<"0", "0", "7", ",", "0", "1">>}

Arrays ==
    {Arr(<<Whole(4), Whole(3)>>), Arr(<<Whole(4)>>), Arr(<<>>),
     Arr(<<Whole(1), Whole(2), Whole(3)>>), Arr(<<Str(<<"x">>), Num(-1)>>)}

\* values of options.blurhash
OptionValues ==
    {Undefined, Bool(TRUE), Bool(FALSE)} \cup Numbers \cup Arrays
    \cup {Str(s) : s \in PlainDelimitedStrings \cup NamedStrings \cup StringsUpTo(2)}

\* values of defaultConfig.components
ConfigComponents ==
    {Undefined, Whole(6), Whole(0), Num(5), Whole(-1), Arr(<<Whole(3), Whole(2)>>),
     Arr(<<Whole(4)>>), Str(<<"5", ",", "2">>),
     Str(<<"i", "n", "v", "a", "l", "i", "d">>), Bool(TRUE)}

DefaultConfigs ==
    [always : {Undefined, Bool(TRUE), Bool(FALSE)}, components : ConfigComponents]

\* arguments of the parser
ComponentSpecs ==
    Numbers \cup Arrays \cup {Undefined, Bool(TRUE), Bool(FALSE)}
    \cup {Str(s) : s \in NamedStrings \cup StringsUpTo(MaxLen)}
    \cup {Str(Delimited(w1, a, w2, sep, w3, b, w4)) :
            w1 \in WhiteSpaceRuns, a \in 0..MaxN, w2 \in WhiteSpaceRuns,
            sep \in Separators, w3 \in WhiteSpaceRuns, b \in 0..MaxN,
            w4 \in WhiteSpaceRuns}

\* an image handle: its identity, what metadata() reports, and whether it
\* has a clone method
Image(id, width, height, clone) ==
    [id |-> id, width |-> width, height |-> height, clone |-> clone]

CoreConfigs ==
    {[always |-> Undefined, components |-> Undefined],
     [always |-> Bool(TRUE), components |-> Whole(6)],
     [always |-> Bool(FALSE), components |-> Str(<<"i", "n", "v", "a", "l", "i", "d">>)]}

CoreOptions ==
    {Undefined, Str(TRUE_), Str(FALSE_), Str(<<>>), Whole(3),
     Str(<<"5", ",", "2">>), Str(<<"i", "n", "v", "a", "l", "i", "d">>),
     Str(<<"4">>)}

CoreImages ==
    {Image(1, Whole(100), Whole(50), TRUE),
     Image(2, Whole(50), Whole(200), TRUE),
     Image(3, Whole(0), Whole(50), TRUE),
     Image(4, Undefined, Undefined, TRUE),
     Image(5, Whole(100), Whole(100), FALSE)}

\* the images handed to one closure concurrently
ClosureImages ==
    {Image(1, Whole(100), Whole(50), TRUE),
     Image(2, Whole(50), Whole(200), TRUE),
     Image(3, Whole(0), Whole(50), TRUE),
     Image(4, Whole(100), Whole(100), FALSE)}

\* widths and heights: 0.5, 1 .. MaxDim, and the sizes the tests use
Dimensions ==
    {Num(1)} \cup {Whole(n) : n \in 1..MaxDim}
    \cup {Whole(50), Whole(100), Whole(200), Whole(500), Whole(1000), Whole(10000)}

ResizeImages == {Image(1, w, h, TRUE) : w \in Dimensions, h \in Dimensions}

\* images of whole-numbered sizes
TransposeImages ==
    {Image(1, w, h, TRUE) : w \in Dimensions \ {Num(1)}, h \in Dimensions \ {Num(1)}}

\* another handle, for the same picture turned by a quarter
Transposed(image) == Image(2, image.height, image.width, image.clone)

\* images whose metadata reports a width or height of 0, or leaves it out
ZeroDimensionImages ==
    {Image(1, w, h, TRUE) :
        w \in {Whole(0), Undefined}, h \in {Whole(0), Undefined, Whole(50)}}
    \cup {Image(1, w, h, TRUE) :
        w \in {Whole(100)}, h \in {Whole(0), Undefined}}

\* options of the transform-only specification: the default pair, a number,
\* a delimited string
ResizeOptions == {Str(TRUE_), Whole(3), Str(<<"5", ",", "2">>)}

---------------------------------------------------------------------------
(* Specifications *)

InitWith(configs, firstOptions, firstComponents) ==
    /\ defaultConfig \in configs
    /\ options \in firstOptions
    /\ finalComponents \in firstComponents
    /\ parsed = None
    /\ result = None
    /\ invocations = <<>>
    /\ store = {}

\* the factory alone: one invocation, over every default configuration and
\* every option value; `options` holds the argument from the start
InitFactory == InitWith(DefaultConfigs, OptionValues, {None})

NextFactory == result = None /\ InvokeFactory(options)

SpecFactory == InitFactory /\ [][NextFactory]_vars

\* the parser alone: one call, over every argument; `finalComponents` holds
\* the argument from the start
InitResolver ==
    InitWith({[always |-> Undefined, components |-> Undefined]}, {None},
             ComponentSpecs)

NextResolver == parsed = None /\ ParseCall(finalComponents)

SpecResolver == InitResolver /\ [][NextResolver]_vars

\* the transform alone: one call on one image, over the full range of sizes
\* and the zero-dimension images
InitResize ==
    InitWith({[always |-> Undefined, components |-> Undefined]}, {None}, {None})

NextResize ==
    \/ result = None /\ \E raw \in ResizeOptions : InvokeFactory(raw)
    \/ \E image \in ResizeImages \cup ZeroDimensionImages : CallTransform(image, 1)
    \/ \E i \in 1..Len(invocations) :
         \E failAt \in MetadataFailures : ResumeMetadata(i, failAt)
    \/ \E i \in 1..Len(invocations) :
         \E failAt \in BufferFailures :
           \E info \in RealizedSizes(invocations[i]) : ResumeBuffer(i, failAt, info)

SpecResize == InitResize /\ [][NextResize]_vars

\* one closure called on an image and then on the same picture transposed
NextTranspose ==
    \/ result = None /\ InvokeFactory(Str(TRUE_))
    \/ \E image \in TransposeImages :
         invocations = <<>> /\ CallTransform(image, 1)
    \/ /\ Len(invocations) = 1
       /\ CallTransform(Transposed(invocations[1].image), Len(invocations) + 1)
    \/ \E i \in 1..Len(invocations) :
         \E failAt \in MetadataFailures : ResumeMetadata(i, failAt)
    \/ \E i \in 1..Len(invocations) :
         \E failAt \in BufferFailures :
           \E info \in RealizedSizes(invocations[i]) : ResumeBuffer(i, failAt, info)

SpecTranspose == InitResize /\ [][NextTranspose]_vars

\* one closure: the factory is invoked once and the transform it returned
\* is called on up to MaxCalls images, a handle possibly more than once, the
\* calls interleaving at their awaits
NextClosure ==
    \/ result = None /\ \E raw \in ResizeOptions : InvokeFactory(raw)
    \/ \E image \in ClosureImages : CallTransform(image, MaxCalls)
    \/ \E i \in 1..Len(invocations) :
         \E failAt \in MetadataFailures : ResumeMetadata(i, failAt)
    \/ \E i \in 1..Len(invocations) :
         \E failAt \in BufferFailures :
           \E info \in RealizedSizes(invocations[i]) : ResumeBuffer(i, failAt, info)

SpecClosure == InitResize /\ [][NextClosure]_vars

\* the whole program: the factory is invoked any number of times, and the
\* transform it last returned is called on up to MaxCalls images, the calls
\* interleaving at their awaits
Init == InitWith(CoreConfigs, {None}, {None})

Next ==
    \/ \E raw \in CoreOptions : InvokeFactory(raw)
    \/ \E image \in CoreImages : CallTransform(image, MaxCalls)
    \/ \E i \in 1..Len(invocations) :
         \E failAt \in MetadataFailures : ResumeMetadata(i, failAt)
    \/ \E i \in 1..Len(invocations) :
         \E failAt \in BufferFailures :
           \E info \in RealizedSizes(invocations[i]) : ResumeBuffer(i, failAt, info)

Spec == Init /\ [][Next]_vars

---------------------------------------------------------------------------
(* Properties of the factory's enablement decision (SpecFactory) *)

EmptyConfig == [always |-> Undefined, components |-> Undefined]

INVALID == <<"i", "n", "v", "a", "l", "i", "d">>

\* the factory has been invoked
Invoked == result # None

\* what resolving the configured default components gives a transform:
\* defaultConfig.components when present, else 4 on both axes (or the
\* resolver's error when the configured value cannot be resolved)
DefaultOutcome ==
    LET pair == parseBlurhashComponents(
                    IF defaultConfig.components = Undefined THEN Whole(4)
                    ELSE defaultConfig.components)
    IN  IF pair.kind = "throw" THEN pair ELSE Transform(pair.val)

\* C1: the factory returns undefined whenever options.blurhash is 'false',
\* whatever the default configuration (always: true included), and whenever
\* options.blurhash is absent and defaultConfig.always is false or absent.
C1_DisabledReturnsUndefined ==
    Invoked =>
      /\ options = Str(FALSE_) => result = Undefined
      /\ (options = Undefined /\ defaultConfig.always \in {Undefined, Bool(FALSE)})
            => result = Undefined

C1_Witness ==
    /\ options = Str(FALSE_)
    /\ defaultConfig.always = Bool(TRUE)
    /\ result = Undefined

\* C2: with no default configuration, options {blurhash: ''} returns
\* undefined (the statement of the tests; the code returns a transform).
C2_EmptyStringDisabled ==
    (Invoked /\ defaultConfig = EmptyConfig /\ options = Str(<<>>))
        => result = Undefined

C4_TrueUsesDefaultComponents ==
    (Invoked /\ (options = Str(TRUE_)
                 \/ (options = Undefined /\ defaultConfig.always = Bool(TRUE)))) =>
      /\ result = DefaultOutcome
      /\ defaultConfig.components = Undefined
            => result = Transform(<<Whole(4), Whole(4)>>)
      /\ defaultConfig.components = Whole(6)
            => result = Transform(<<Whole(6), Whole(6)>>)
      /\ defaultConfig.components = Arr(<<Whole(3), Whole(2)>>)
            => result = Transform(<<Whole(3), Whole(2)>>)

C4_Witness ==
    /\ options = Undefined
    /\ defaultConfig = [always |-> Bool(TRUE), components |-> Whole(6)]
    /\ result = Transform(<<Whole(6), Whole(6)>>)

\* options.blurhash carries a components value: a non-negative whole number,
\* or a string of two digit groups around one separator
CarriesComponents(v) ==
    \/ v.kind = "number" /\ v.val >= 0 /\ v.val % 2 = 0
    \/ v.kind = "string" /\ v.val \in PlainDelimitedStrings

\* C5: when options.blurhash carries a components value, the transform is
\* bound to the components of that value and defaultConfig.components is
\* ignored, for every default configuration.
C5_OptionOverridesDefault ==
    (Invoked /\ CarriesComponents(options)) =>
      /\ result.kind = "function"
      /\ \A config \in DefaultConfigs : FactoryResult(options, config) = result
      /\ options.kind = "number" => result = Transform(<<options, options>>)
      /\ \A a \in 0..MaxN, b \in 0..MaxN, sep \in Separators :
            options = Str(Delimited(<<>>, a, <<>>, sep, <<>>, b, <<>>))
                => result = Transform(<<Whole(a), Whole(b)>>)

C5_Witness ==
    /\ options = Whole(3)
    /\ defaultConfig.components = Whole(6)
    /\ result = Transform(<<Whole(3), Whole(3)>>)

\* C6 as stated: for every numeric n >= 0 given as options.blurhash the
\* transform is bound to xComponents = n and yComponents = n.
C6_EveryNumberBothAxes ==
    (Invoked /\ options.kind = "number" /\ options.val >= 0)
        => result = Transform(<<options, options>>)

\* C6, amended: for every non-negative integer n given as options.blurhash
\* the transform is bound to xComponents = n and yComponents = n.
C6_WholeNumberBothAxes ==
    (Invoked /\ options.kind = "number" /\ options.val >= 0 /\ options.val % 2 = 0)
        => result = Transform(<<options, options>>)

C6_Witness ==
    /\ options = Whole(MaxN)
    /\ result = Transform(<<Whole(MaxN), Whole(MaxN)>>)

\* C7: a single count in the query, ?blurhash=4, reaching the factory as the
\* number 4 or as the digit string "4", selects 4 x 4 components (the
\* statement of the README; the code throws on the digit string).
C7_SingleCountBothAxes ==
    (Invoked /\ options \in {Whole(4), Str(<<"4">>)})
        => result = Transform(<<Whole(4), Whole(4)>>)

---------------------------------------------------------------------------
(* Properties of the resolver (SpecResolver) *)

\* every "<ws>a<ws><sep><ws>b<ws>" with the pair (a, b) it denotes
DelimitedCases ==
    {<<Delimited(w1, a, w2, sep, w3, b, w4), <<a, b>>>> :
        w1 \in WhiteSpaceRuns, a \in 0..MaxN, w2 \in WhiteSpaceRuns,
        sep \in Separators, w3 \in WhiteSpaceRuns, b \in 0..MaxN,
        w4 \in WhiteSpaceRuns}

\* C8: for all integers a, b >= 0, every separator of ",", " ", "-" and any
\* white space before a, around the separator and after b, resolving
\* "<ws>a<ws><sep><ws>b<ws>" yields the pair (a, b).
C8_DelimitedStringResolves ==
    (parsed # None /\ finalComponents.kind = "string") =>
        \A a \in 0..MaxN, b \in 0..MaxN :
            <<finalComponents.val, <<a, b>>>> \in DelimitedCases
                => parsed = Arr(<<Whole(a), Whole(b)>>)

C8_Witness ==
    /\ finalComponents = Str(<<"\t", " ", "1", "0", " ", "-", "\t", " ", "7", " ">>)
    /\ parsed = Arr(<<Whole(10), Whole(7)>>)

---------------------------------------------------------------------------
(* Properties of the whole program (Spec) *)

\* `part` occurs in `text` as a run of consecutive pieces
Contains(text, part) ==
    \E i \in 1..(Len(text) - Len(part) + 1) :
        SubSeq(text, i, i + Len(part) - 1) = part

\* a string option that is none of 'true', 'false', '' and does not match
\* the grammar
InvalidStringOption(v) ==
    /\ v.kind = "string"
    /\ v.val \notin {TRUE_, FALSE_, <<>>}
    /\ RegexMatch(v.val) = <<>>

\* C9: a components string that does not match the grammar makes the factory
\* invocation itself fail: no transform is returned, no collaborator has been
\* called by the step (no call is started, advanced or logged, nothing is
\* written to the store), and the message holds the offending string and
\* the three formats "x,y", "x y" and "x-y".
C9_InvalidStringFailsSynchronously ==
    [][(<<options, result>>' # <<options, result>> /\ InvalidStringOption(options'))
        => /\ result'.kind = "throw"
           /\ Contains(result'.val, options'.val)
           /\ Contains(result'.val, <<"\"x,y\"">>)
           /\ Contains(result'.val, <<"\"x y\"">>)
           /\ Contains(result'.val, <<"\"x-y\"">>)
           /\ invocations' = invocations
           /\ store' = store]_vars

C9_Witness ==
    /\ options = Str(INVALID)
    /\ result.kind = "throw"
    /\ Contains(result.val, INVALID)
    /\ Len(invocations) > 0

---------------------------------------------------------------------------
(* Properties of the resize policy (SpecResize) *)

\* r is the integer nearest to num / den (den > 0), halves up
IsNearest(num, den, r) ==
    /\ (2 * r - 1) * den <= 2 * num
    /\ 2 * num < (2 * r + 1) * den

\* (tw, th) is what the reference policy requests for a width x height image
\* (all four doubled)
IsReferenceTarget(width, height, tw, th) ==
    IF width > height
    THEN /\ tw = Max(2, Min(2 * maxSize, width))
         /\ \E r \in 0..maxSize :
              /\ IsNearest(Min(2 * maxSize, width) * height, 2 * width, r)
              /\ th = Max(2, 2 * r)
    ELSE /\ th = Max(2, Min(2 * maxSize, height))
         /\ \E r \in 0..maxSize :
              /\ IsNearest(Min(2 * maxSize, height) * width, 2 * height, r)
              /\ tw = Max(2, 2 * r)

\* the resize calls an invocation has made
ResizeCalls(inv) ==
    {inv.calls[k] : k \in {k \in 1..Len(inv.calls) : inv.calls[k].op = "resize"}}

\* the invocation requested exactly w x h (whole numbers)
Requests(inv, w, h) ==
    \A call \in ResizeCalls(inv) : call.args = <<Whole(w), Whole(h), "nearest">>

\* C10: for every image with width > 0 and height > 0 the resize request
\* equals the reference policy; 100x50 -> (32,16), 1000x500 -> (32,16),
\* 200x200 -> (32,32), 50x200 -> (8,32), 200x50 -> (32,8), 1x1 -> (1,1).
C10_ResizeFollowsReferencePolicy ==
    \A i \in 1..Len(invocations) :
        LET inv == invocations[i]
            w == inv.image.width
            h == inv.image.height
        IN  /\ \A call \in ResizeCalls(inv) :
                 /\ call.args[3] = "nearest"
                 /\ IsReferenceTarget(w.val, h.val, call.args[1].val, call.args[2].val)
            /\ (w = Whole(100) /\ h = Whole(50)) => Requests(inv, 32, 16)
            /\ (w = Whole(1000) /\ h = Whole(500)) => Requests(inv, 32, 16)
            /\ (w = Whole(200) /\ h = Whole(200)) => Requests(inv, 32, 32)
            /\ (w = Whole(50) /\ h = Whole(200)) => Requests(inv, 8, 32)
            /\ (w = Whole(200) /\ h = Whole(50)) => Requests(inv, 32, 8)
            /\ (w = Whole(1) /\ h = Whole(1)) => Requests(inv, 1, 1)

C10_Witness ==
    \E i \in 1..Len(invocations) :
        /\ invocations[i].image.width = Whole(40)
        /\ invocations[i].image.height = Whole(2)
        /\ \E call \in ResizeCalls(invocations[i]) :
              call.args = <<Whole(32), Whole(2), "nearest">>

---------------------------------------------------------------------------
(* Range and proportion of the resize request (SpecResize) *)

\* the image of an invocation reports a width and a height above 0
PositiveDimensions(inv) ==
    /\ inv.image.width.kind = "number" /\ inv.image.width.val > 0
    /\ inv.image.height.kind = "number" /\ inv.image.height.val > 0

\* C11: for every image with width > 0 and height > 0, fractional sizes
\* (0.5 x 0.5) and extreme aspect ratios (1 x 10000) included, both requested
\* resize dimensions lie in 1..32: neither is 0, neither exceeds 32.
C11_ResizeWithinOneToMaxSize ==
    \A i \in 1..Len(invocations) :
        LET inv == invocations[i]
        IN  /\ \A call \in ResizeCalls(inv) :
                 /\ PositiveDimensions(inv)
                 /\ call.args[1].kind = "number" /\ call.args[2].kind = "number"
                 /\ 2 * 1 <= call.args[1].val /\ call.args[1].val <= 2 * 32
                 /\ 2 * 1 <= call.args[2].val /\ call.args[2].val <= 2 * 32
            /\ (inv.image.width = Num(1) /\ inv.image.height = Num(1))
                    => Requests(inv, 1, 1)
            /\ (inv.image.width = Whole(1) /\ inv.image.height = Whole(10000))
                    => Requests(inv, 1, 32)
            /\ (inv.image.width = Whole(10000) /\ inv.image.height = Whole(1))
                    => Requests(inv, 32, 1)

C11_Witness ==
    \E i \in 1..Len(invocations) :
        /\ invocations[i].image.width = Whole(1)
        /\ invocations[i].image.height = Whole(10000)
        /\ invocations[i].pc = "resolved"
        /\ \E call \in ResizeCalls(invocations[i]) :
              call.args = <<Whole(1), Whole(32), "nearest">>

\* width and height of the image are whole numbers >= 1
WholeDimensions(inv) ==
    /\ PositiveDimensions(inv)
    /\ inv.image.width.val % 2 = 0
    /\ inv.image.height.val % 2 = 0

\* |short - long * shorter / longer| <= 1/2, for a request (long on the
\* longer axis, short on the shorter one) of an image shorter x longer
WithinHalfPixel(short, long, shorter, longer) ==
    LET d == short * longer - long * shorter
    IN  2 * (IF d >= 0 THEN d ELSE -d) <= longer

\* the request (tw, th) for a width x height image keeps the proportion to
\* within half a pixel on the shorter axis (whole numbers, not doubled)
KeepsProportion(width, height, tw, th) ==
    IF width > height
    THEN WithinHalfPixel(th, tw, height, width)
    ELSE WithinHalfPixel(tw, th, width, height)

\* the exact proportional value of the shorter axis is below one half
ProportionBelowHalf(width, height, tw, th) ==
    IF width > height THEN 2 * tw * height < width
    ELSE 2 * th * width < height

\* C12 as stated: for every positive integer width and height the target of
\* the shorter axis differs from the exact proportional value (target of
\* the longer axis x shorter / longer) by at most one half pixel.
C12_ProportionWithinHalfPixel ==
    \A i \in 1..Len(invocations) :
        WholeDimensions(invocations[i]) =>
            \A call \in ResizeCalls(invocations[i]) :
                KeepsProportion(invocations[i].image.width.val \div 2,
                                invocations[i].image.height.val \div 2,
                                call.args[1].val \div 2, call.args[2].val \div 2)

\* C12, amended: the half-pixel bound holds whenever the exact proportional
\* value is at least one half; below one half (the longer side more than 64
\* times the shorter at the cap) the shorter axis is requested at 1.
C12_ProportionWithinHalfPixelOrOne ==
    \A i \in 1..Len(invocations) :
        WholeDimensions(invocations[i]) =>
            \A call \in ResizeCalls(invocations[i]) :
                LET width == invocations[i].image.width.val \div 2
                    height == invocations[i].image.height.val \div 2
                    tw == call.args[1].val \div 2
                    th == call.args[2].val \div 2
                IN  /\ call.args[1].val % 2 = 0 /\ call.args[2].val % 2 = 0
                    /\ IF ProportionBelowHalf(width, height, tw, th)
                       THEN (IF width > height THEN th ELSE tw) = 1
                       ELSE KeepsProportion(width, height, tw, th)

C12_Witness ==
    \E i \in 1..Len(invocations) :
        /\ invocations[i].image.width = Whole(37)
        /\ invocations[i].image.height = Whole(11)
        /\ \E call \in ResizeCalls(invocations[i]) :
              call.args = <<Whole(32), Whole(10), "nearest">>

---------------------------------------------------------------------------
(* Effects of one transform invocation (SpecResize) *)

\* the operations an invocation has called, in order
OpsOf(inv) == [k \in 1..Len(inv.calls) |-> inv.calls[k].op]

\* the calls of an invocation to one operation
CallsTo(inv, op) == {k \in 1..Len(inv.calls) : inv.calls[k].op = op}

\* the metadata of the image reports a width or height of 0, or leaves one out
ZeroDimensions(inv) ==
    \/ inv.image.width \in {Whole(0), Undefined}
    \/ inv.image.height \in {Whole(0), Undefined}

\* the entries the store holds for the image of an invocation
EntriesOf(inv) == {e \in store : e.image = inv.image.id}

HashOf(call) ==
    encode(call.args[1], call.args[2], call.args[3], call.args[4], call.args[5])

\* the only call of an invocation to an operation it called once
TheCall(inv, op) == inv.calls[CHOOSE k \in CallsTo(inv, op) : TRUE]

\* C14: every invocation that completes successfully on an image with
\* non-zero dimensions has written the store exactly once, under the key
\* 'blurhash', with exactly the string encode returned, keyed to the handle
\* it was given, and resolves with that very handle.
C14_OneWriteKeyedToOriginal ==
    \A i \in 1..Len(invocations) :
        LET inv == invocations[i]
        IN  (inv.pc = "resolved" /\ ~ZeroDimensions(inv)) =>
              /\ Cardinality(CallsTo(inv, "encode")) = 1
              /\ Cardinality(CallsTo(inv, "setMetadata")) = 1
              /\ TheCall(inv, "setMetadata").on = "store"
              /\ TheCall(inv, "setMetadata").args =
                    <<inv.image.id, "blurhash", HashOf(TheCall(inv, "encode"))>>
              /\ EntriesOf(inv) =
                    {[image |-> inv.image.id, key |-> "blurhash",
                      value |-> HashOf(TheCall(inv, "encode"))]}
              /\ store = EntriesOf(inv)
              /\ inv.returned = inv.image

C14_Witness ==
    \E i \in 1..Len(invocations) :
        /\ invocations[i].pc = "resolved"
        /\ invocations[i].image.width = Whole(100)
        /\ invocations[i].image.height = Whole(50)
        /\ invocations[i].returned = invocations[i].image
        /\ Cardinality(store) = 1
        /\ \A e \in store : e.key = "blurhash" /\ e.image = invocations[i].image.id

\* C15: encode is called with the realized width and height that toBuffer
\* reported (info.width, info.height), not with the requested size when the
\* two differ, and with the pair resolved at the factory invocation.
C15_EncodeGetsRealizedSize ==
    \A i \in 1..Len(invocations) :
        LET inv == invocations[i]
        IN  \A k \in CallsTo(inv, "encode") :
              /\ Len(inv.info) = 2
              /\ inv.calls[k].args[2] = Num(inv.info[1])
              /\ inv.calls[k].args[3] = Num(inv.info[2])
              /\ <<inv.calls[k].args[4], inv.calls[k].args[5]>> = result.val
              /\ result.val = parsed.val
              /\ options = Whole(3) =>
                    <<inv.calls[k].args[4], inv.calls[k].args[5]>> = <<Whole(3), Whole(3)>>
              /\ options = Str(<<"5", ",", "2">>) =>
                    <<inv.calls[k].args[4], inv.calls[k].args[5]>> = <<Whole(5), Whole(2)>>

C15_Witness ==
    \E i \in 1..Len(invocations) :
        /\ invocations[i].target = <<2 * 32, 2 * 16>>
        /\ invocations[i].info = <<2 * 1, 2 * 1>>
        /\ invocations[i].pc = "resolved"
        /\ \E k \in CallsTo(invocations[i], "encode") :
              /\ invocations[i].calls[k].args[2] = Whole(1)
              /\ invocations[i].calls[k].args[3] = Whole(1)
              /\ invocations[i].calls[k].args[4] = Whole(5)
              /\ invocations[i].calls[k].args[5] = Whole(2)

\* the collaborator calls of one invocation on a non-zero image, in the
\* order of the source
CallOrder ==
    <<"metadata", "clone", "resize", "ensureAlpha", "raw", "toBuffer",
      "encode", "setMetadata">>

\* C16: if a collaborator call fails (metadata read, clone, resize,
\* ensureAlpha, raw, toBuffer, encode, setMetadata) the invocation rejects
\* with that same failure and performs no later step; when the failure comes
\* before the metadata write, nothing is written to the store.
C16_FailurePropagatesUnchanged ==
    \A i \in 1..Len(invocations) :
        LET inv == invocations[i]
            last == inv.calls[Len(inv.calls)]
        IN  inv.pc = "rejected" =>
              /\ inv.returned = CollaboratorError(last.op)
              /\ ~ZeroDimensions(inv) =>
                    OpsOf(inv) = SubSeq(CallOrder, 1, Len(inv.calls))
              /\ last.op # "setMetadata" => CallsTo(inv, "setMetadata") = {}
              /\ store = {}

C16_Witness ==
    \E i \in 1..Len(invocations) :
        /\ invocations[i].pc = "rejected"
        /\ invocations[i].returned = CollaboratorError("encode")
        /\ OpsOf(invocations[i]) = SubSeq(CallOrder, 1, 7)
        /\ store = {}

\* C19: in one invocation on an image with non-zero dimensions the calls
\* are made in the order metadata, clone, resize (kernel 'nearest'),
\* ensureAlpha, raw, toBuffer, encode, setMetadata, return; each at most
\* once; the metadata write is the last effect and follows encode.
C19_FixedCallOrder ==
    \A i \in 1..Len(invocations) :
        LET inv == invocations[i]
        IN  ~ZeroDimensions(inv) =>
              /\ OpsOf(inv) = SubSeq(CallOrder, 1, Len(inv.calls))
              /\ \A call \in ResizeCalls(inv) : call.args[3] = "nearest"
              /\ inv.pc = "metadata" => Len(inv.calls) = 1
              /\ inv.pc = "toBuffer" => Len(inv.calls) = 6
              /\ inv.pc = "resolved" =>
                    Len(inv.calls) = Len(CallOrder) /\ inv.returned = inv.image
              /\ inv.pc # "resolved" => inv.returned # inv.image
              /\ EntriesOf(inv) # {} => inv.pc = "resolved"

C19_Witness ==
    \E i \in 1..Len(invocations) :
        /\ invocations[i].pc = "resolved"
        /\ OpsOf(invocations[i]) = CallOrder
        /\ store # {}

\* C20: resize, ensureAlpha, raw and toBuffer are applied to the clone only;
\* the handle itself receives no call other than metadata and clone, and it
\* is the handle that is returned.
C20_OnlyCloneIsResized ==
    \A i \in 1..Len(invocations) :
        LET inv == invocations[i]
        IN  /\ \A k \in 1..Len(inv.calls) :
                 /\ inv.calls[k].on = "image" =>
                        inv.calls[k].op \in {"metadata", "clone"}
                 /\ inv.calls[k].op \in {"resize", "ensureAlpha", "raw", "toBuffer"} =>
                        /\ inv.calls[k].on = "clone"
                        /\ \E j \in 1..(k - 1) : inv.calls[j].op = "clone"
            /\ inv.pc = "resolved" => inv.returned = inv.image

C20_Witness ==
    \E i \in 1..Len(invocations) :
        /\ invocations[i].pc = "resolved"
        /\ invocations[i].returned = invocations[i].image
        /\ \E k \in CallsTo(invocations[i], "resize") :
              invocations[i].calls[k].on = "clone"
        /\ \E k \in CallsTo(invocations[i], "toBuffer") :
              invocations[i].calls[k].on = "clone"

---------------------------------------------------------------------------
(* Concurrent and repeated invocations of one closure (SpecClosure) *)

\* no other invocation was given the handle of invocation i
OwnHandle(i) ==
    \A j \in 1..Len(invocations) :
        j # i => invocations[j].image.id # invocations[i].image.id

\* the invocation completed successfully on an image with non-zero dimensions
Hashed(inv) == inv.pc = "resolved" /\ ~ZeroDimensions(inv)

\* C17: for concurrent invocations on distinct handles, under every
\* interleaving at the two awaits, each invocation writes exactly one
\* 'blurhash' entry keyed to its own handle, computed from its own buffer,
\* realized size and pair; none writes to another's handle; and the number
\* of writes equals the number of invocations.
C17_ConcurrentCallsIsolated ==
    /\ \A i \in 1..Len(invocations) :
          LET inv == invocations[i]
          IN  /\ \A k \in 1..Len(inv.calls) :
                    inv.calls[k].on = "store" => inv.calls[k].args[1] = inv.image.id
              /\ Hashed(inv) =>
                    /\ Cardinality(CallsTo(inv, "setMetadata")) = 1
                    /\ TheCall(inv, "encode").args =
                          <<PixelsOf(inv.image, inv.target),
                            Num(inv.info[1]), Num(inv.info[2]),
                            inv.xComponents, inv.yComponents>>
                    /\ TheCall(inv, "setMetadata").args =
                          <<inv.image.id, "blurhash", HashOf(TheCall(inv, "encode"))>>
                    /\ OwnHandle(i) =>
                          EntriesOf(inv) =
                            {[image |-> inv.image.id, key |-> "blurhash",
                              value |-> HashOf(TheCall(inv, "encode"))]}
              /\ (OwnHandle(i) /\ ~Hashed(inv)) => EntriesOf(inv) = {}
    /\ (\A i \in 1..Len(invocations) : OwnHandle(i))
          => Cardinality(store) =
               Cardinality({i \in 1..Len(invocations) : Hashed(invocations[i])})

\* the second call completed while the first, on another image, still
\* awaits its buffer
C17_Witness ==
    /\ Len(invocations) = 2
    /\ invocations[1].image.id # invocations[2].image.id
    /\ invocations[1].pc = "toBuffer"
    /\ invocations[2].pc = "resolved"
    /\ ~ZeroDimensions(invocations[2])
    /\ Cardinality(store) = 1
    /\ \A e \in store : e.image = invocations[2].image.id

\* invocations i and j ran the same transform on the same image and encode
\* returned the same string to both
SameRun(a, b) ==
    /\ a.image = b.image
    /\ a.xComponents = b.xComponents /\ a.yComponents = b.yComponents
    /\ HashOf(TheCall(a, "encode")) = HashOf(TheCall(b, "encode"))

\* C18: when a transform is invoked twice on the same image and encode
\* returns the same string, the second invocation writes the same value,
\* returns the same handle, and leaves the store as the first left it.
C18_SecondRunChangesNothing ==
    [][\A i, j \in 1..Len(invocations) :
        (/\ i # j
         /\ Hashed(invocations[i])
         /\ invocations[j].pc = "toBuffer"
         /\ Hashed(invocations'[j])
         /\ SameRun(invocations[i], invocations'[j]))
        => /\ TheCall(invocations'[j], "setMetadata").args =
                TheCall(invocations[i], "setMetadata").args
           /\ invocations'[j].returned = invocations[i].returned
           /\ {e \in store' : e.image = invocations[i].image.id} =
                {[image |-> invocations[i].image.id, key |-> "blurhash",
                  value |-> TheCall(invocations[i], "setMetadata").args[3]]}
           /\ {e \in store' : e.image # invocations[i].image.id} =
                {e \in store : e.image # invocations[i].image.id}
           /\ (\A k \in 1..Len(invocations) :
                  (k # j /\ Hashed(invocations[k])
                   /\ invocations[k].image = invocations[i].image)
                      => SameRun(invocations[i], invocations[k]))
                => store' = store]_vars

C18_Witness ==
    /\ Len(invocations) = 2
    /\ Hashed(invocations[1]) /\ Hashed(invocations[2])
    /\ SameRun(invocations[1], invocations[2])
    /\ Cardinality(store) = 1
    /\ \A e \in store :
          e.value = TheCall(invocations[1], "setMetadata").args[3]

---------------------------------------------------------------------------
(* What the factory binds and what it rejects (SpecFactory) *)

\* a JavaScript value that is an integer >= 0
IsNatural(v) == v.kind = "number" /\ v.val >= 0 /\ v.val % 2 = 0

\* C21: both component counts bound to a transform the factory returns are
\* integers >= 0, for every default configuration and every option the
\* factory accepts (the invariant of the spec; the code binds a numeric
\* default such as -1 or 2.5 as it is).
C21_BoundCountsAreNaturals ==
    (Invoked /\ result.kind = "function") =>
        IsNatural(result.val[1]) /\ IsNatural(result.val[2])

---------------------------------------------------------------------------
(* The zero-dimension branch and its failures (SpecResize) *)

\* C22 as stated: a transform invoked on an image with a zero dimension
\* resolves with the original handle and never rejects (the metadata read
\* having reported the dimension).
C22_ZeroDimensionsNeverReject ==
    \A i \in 1..Len(invocations) :
        (/\ ZeroDimensions(invocations[i])
         /\ invocations[i].returned # CollaboratorError("metadata"))
            => invocations[i].pc # "rejected"

\* C22, amended: on an image with a zero dimension the transform resolves
\* with the original handle, unchanged, after the warning, unless the path
\* lookup made for the warning fails: then it rejects with that failure
\* and no warning is emitted.
C22_ZeroDimensionsRejectOnlyOnLookupFailure ==
    \A i \in 1..Len(invocations) :
        LET inv == invocations[i]
        IN  (ZeroDimensions(inv) /\ inv.returned # CollaboratorError("metadata")) =>
              /\ inv.pc = "rejected" =>
                    /\ inv.returned = CollaboratorError("getMetadata")
                    /\ OpsOf(inv) = <<"metadata", "getMetadata">>
              /\ inv.pc = "resolved" =>
                    /\ inv.returned = inv.image
                    /\ OpsOf(inv) = <<"metadata", "getMetadata", "warn">>
              /\ inv.pc \in {"metadata", "rejected", "resolved"}
              /\ store = {}

C22_Witness ==
    \E i \in 1..Len(invocations) :
        /\ invocations[i].image.width = Whole(0)
        /\ invocations[i].image.height = Whole(50)
        /\ invocations[i].pc = "rejected"
        /\ invocations[i].returned = CollaboratorError("getMetadata")
        /\ CallsTo(invocations[i], "warn") = {}

\* C23: a transform invoked on an image whose metadata resolves with width
\* and height both undefined rejects, it does not resolve with the image
\* (the statement of the test; the code warns and resolves with the image).
C23_UndefinedDimensionsReject ==
    \A i \in 1..Len(invocations) :
        (/\ invocations[i].image.width = Undefined
         /\ invocations[i].image.height = Undefined
         /\ invocations[i].pc # "metadata")
            => /\ invocations[i].pc = "rejected"
               /\ invocations[i].returned # invocations[i].image

---------------------------------------------------------------------------
(* Values the resolver does not support (SpecResolver) *)

\* C24: the resolver fails on every components value of unsupported shape
\* instead of returning a pair: an array whose length is not 2 fails, a
\* value that is neither number, array nor string (a boolean, undefined)
\* fails with the type error naming its type; an array of two elements is
\* returned as it is.
C24_UnsupportedShapesFail ==
    parsed # None =>
      /\ (finalComponents.kind = "array" /\ Len(finalComponents.val) # 2) =>
            /\ parsed.kind = "throw"
            /\ parsed.val = <<"blurhashComponents array must have exactly 2 elements">>
      /\ (finalComponents.kind = "array" /\ Len(finalComponents.val) = 2) =>
            parsed = finalComponents
      /\ finalComponents.kind \notin {"number", "array", "string"} =>
            /\ parsed.kind = "throw"
            /\ parsed.val = <<"Invalid blurhashComponents type: ", finalComponents.kind>>
      /\ finalComponents.kind = "boolean" =>
            parsed.val[2] = "boolean"

C24_Witness ==
    /\ finalComponents = Arr(<<Whole(1), Whole(2), Whole(3)>>)
    /\ parsed.kind = "throw"
    /\ parsed.val = <<"blurhashComponents array must have exactly 2 elements">>

---------------------------------------------------------------------------
(* Handles without a clone method (SpecClosure) *)

\* the handle reports non-zero dimensions and has no clone method
LacksClone(inv) == ~inv.image.clone /\ ~ZeroDimensions(inv)

\* C25: the capabilities of the handle are not validated up front: for a
\* handle with non-zero dimensions and no clone method the factory
\* invocation succeeds, the transform first reads the metadata and only
\* then rejects, at the clone step, with no hash computed and nothing
\* written.
C25_MissingCloneFoundAtUse ==
    \A i \in 1..Len(invocations) :
        LET inv == invocations[i]
        IN  LacksClone(inv) =>
              /\ result.kind = "function"
              /\ Len(inv.calls) >= 1 /\ inv.calls[1].op = "metadata"
              /\ inv.pc \in {"metadata", "rejected"}
              /\ inv.pc = "rejected" =>
                    /\ OpsOf(inv) = <<"metadata">>
                    /\ inv.returned \in {TypeErrorOf("clone"),
                                          CollaboratorError("metadata")}
              /\ CallsTo(inv, "encode") = {} /\ CallsTo(inv, "setMetadata") = {}
              /\ OwnHandle(i) => EntriesOf(inv) = {}

C25_Witness ==
    \E i \in 1..Len(invocations) :
        /\ LacksClone(invocations[i])
        /\ invocations[i].pc = "rejected"
        /\ invocations[i].returned = TypeErrorOf("clone")
        /\ OpsOf(invocations[i]) = <<"metadata">>

---------------------------------------------------------------------------
(* The pair bound to a closure (Spec) *)

\* the pair an invocation was started with
PairOf(inv) == <<inv.xComponents, inv.yComponents>>

\* C26: the pair is resolved once, at the factory invocation, and bound to
\* the transform returned: a call of the transform takes the pair of the
\* closure called, keeps it whatever the factory is asked afterwards, and
\* hands exactly it to encode; and a factory invocation with the same
\* default configuration and the same options as the one before yields the
\* same result, so the same pair.
C26_PairBoundAtFactoryInvocation ==
    [][/\ \A i \in 1..Len(invocations) :
            /\ PairOf(invocations'[i]) = PairOf(invocations[i])
            /\ \A k \in CallsTo(invocations'[i], "encode") :
                  <<invocations'[i].calls[k].args[4],
                    invocations'[i].calls[k].args[5]>> = PairOf(invocations[i])
       /\ Len(invocations') > Len(invocations) =>
            /\ result' = result
            /\ PairOf(invocations'[Len(invocations')]) = result.val
       /\ (result # None /\ options' = options) => result' = result]_vars

\* two completed calls hashed with different pairs: the first belongs to a
\* closure made by an earlier factory invocation
C26_Witness ==
    /\ Len(invocations) = 2
    /\ Hashed(invocations[1]) /\ Hashed(invocations[2])
    /\ PairOf(invocations[1]) = <<Whole(3), Whole(3)>>
    /\ PairOf(invocations[2]) = <<Whole(5), Whole(2)>>
    /\ TheCall(invocations[1], "encode").args[4] = Whole(3)
    /\ TheCall(invocations[2], "encode").args[4] = Whole(5)
    /\ result = Transform(<<Whole(5), Whole(2)>>)

---------------------------------------------------------------------------
(* Numbers as option and as default, invalid defaults (SpecFactory) *)

\* the invocation falls back to the configured default components
UsesDefault ==
    \/ options \in {Str(TRUE_), Str(<<>>)}
    \/ options = Undefined /\ defaultConfig.always = Bool(TRUE)

\* C27: a numeric option that is not a non-negative integer (-1, 2.5) makes
\* the factory invocation fail with the invalid-string-format error, being
\* first rewritten to 'n,n'; the same number given as
\* defaultConfig.components is accepted and bound unchanged as (n, n).
C27_NumberOptionStricterThanDefault ==
    Invoked =>
      /\ (options.kind = "number" /\ ~IsNatural(options)) =>
            /\ result.kind = "throw"
            /\ result.val[1] = "Invalid blurhashComponents string format: "
            /\ options = Whole(-1) =>
                  Contains(result.val, <<"\"", "-", "1", ",", "-", "1", "\"">>)
            /\ options = Num(5) =>
                  Contains(result.val, <<"\"", "2", ".", "5", ",", "2", ".", "5", "\"">>)
      /\ (UsesDefault /\ defaultConfig.components.kind = "number") =>
            result = Transform(<<defaultConfig.components, defaultConfig.components>>)

C27_Witness ==
    /\ options = Num(5)
    /\ defaultConfig.components = Num(5)
    /\ result.kind = "throw"
    /\ FactoryResult(Str(TRUE_), defaultConfig) = Transform(<<Num(5), Num(5)>>)

\* configured components the resolver cannot resolve
InvalidDefaults == {Str(INVALID), Arr(<<Whole(4)>>), Bool(TRUE)}

\* the invocation is disabled
Disabled ==
    \/ options = Str(FALSE_)
    \/ options = Undefined /\ defaultConfig.always \in {Undefined, Bool(FALSE)}

\* C28: an invalid defaultConfig.components is detected only when it is
\* used: a disabled invocation returns undefined without failing, an
\* invocation carrying its own valid components succeeds, and only an
\* invocation that falls back to the default ('true', '', or absent with
\* always true) fails, with the resolver's error for that value.
C28_InvalidDefaultFailsOnlyWhenUsed ==
    (Invoked /\ defaultConfig.components \in InvalidDefaults) =>
      /\ Disabled => result = Undefined
      /\ CarriesComponents(options) => result.kind = "function"
      /\ UsesDefault =>
            /\ result.kind = "throw"
            /\ defaultConfig.components = Str(INVALID) =>
                  result.val[1] = "Invalid blurhashComponents string format: "
            /\ defaultConfig.components = Arr(<<Whole(4)>>) =>
                  result.val = <<"blurhashComponents array must have exactly 2 elements">>
            /\ defaultConfig.components = Bool(TRUE) =>
                  result.val = <<"Invalid blurhashComponents type: ", "boolean">>

C28_Witness ==
    /\ defaultConfig = [always |-> Bool(TRUE), components |-> Str(INVALID)]
    /\ options = Str(<<"4", ",", "3">>)
    /\ result = Transform(<<Whole(4), Whole(3)>>)

---------------------------------------------------------------------------
(* No upscaling (SpecResize) *)

\* C29: for every integer width >= 1 and height >= 1 the requested resize
\* dimensions are integers, exceed the source on neither axis, and the
\* longer axis is requested at exactly min(32, longer source dimension).
C29_NeverUpscaled ==
    \A i \in 1..Len(invocations) :
        WholeDimensions(invocations[i]) =>
            \A call \in ResizeCalls(invocations[i]) :
                LET width == invocations[i].image.width.val \div 2
                    height == invocations[i].image.height.val \div 2
                    tw == call.args[1].val
                    th == call.args[2].val
                IN  /\ tw % 2 = 0 /\ th % 2 = 0
                    /\ tw \div 2 <= width /\ th \div 2 <= height
                    /\ width >= height =>
                          tw \div 2 = (IF width < 32 THEN width ELSE 32)
                    /\ height >= width =>
                          th \div 2 = (IF height < 32 THEN height ELSE 32)

C29_Witness ==
    \E i \in 1..Len(invocations) :
        /\ invocations[i].image.width = Whole(5)
        /\ invocations[i].image.height = Whole(3)
        /\ \E call \in ResizeCalls(invocations[i]) :
              call.args = <<Whole(5), Whole(3), "nearest">>

---------------------------------------------------------------------------
(* Transposition (SpecTranspose) *)

\* C30: the resize policy is symmetric under transposition: for positive
\* integer width and height, if a w x h image is requested at (tw, th) then
\* an h x w image is requested at (th, tw).
C30_TransposedRequestIsTransposed ==
    \A i, j \in 1..Len(invocations) :
        (/\ WholeDimensions(invocations[i])
         /\ invocations[j].image.width = invocations[i].image.height
         /\ invocations[j].image.height = invocations[i].image.width)
        => \A a \in ResizeCalls(invocations[i]), b \in ResizeCalls(invocations[j]) :
              /\ b.args[1] = a.args[2]
              /\ b.args[2] = a.args[1]

C30_Witness ==
    /\ Len(invocations) = 2
    /\ invocations[1].image.width = Whole(100)
    /\ invocations[1].image.height = Whole(30)
    /\ invocations[2].image.width = Whole(30)
    /\ invocations[2].image.height = Whole(100)
    /\ \E a \in ResizeCalls(invocations[1]) : a.args = <<Whole(32), Whole(10), "nearest">>
    /\ \E b \in ResizeCalls(invocations[2]) : b.args = <<Whole(10), Whole(32), "nearest">>

=============================================================================
